---- MODULE Spec2Model ----
(***************************************************************************)
(* A model of the plan generator front end: the three form components      *)
(* (AutoVastuForm, VastuPlannerForm, FloorPlanGenerator), the results view *)
(* (FloorPlanResults), the router that connects them and the floor-plan    *)
(* service seen as a black box that answers POST requests.                 *)
(*                                                                         *)
(* One behaviour of the model is one browser session of one build of the   *)
(* application: `variant` says which form component the build mounts at    *)
(* "/".  History (back/forward) navigation of the browser is not modelled; *)
(* the only navigations are the ones the components perform and a direct   *)
(* load of a URL.                                                          *)
(***************************************************************************)
EXTENDS Integers, Sequences, FiniteSets, TLC

(***************************************************************************)
(* Bounds of the model.                                                    *)
(***************************************************************************)
\* largest number a user types into a dimension field (the smallest is 0)
MaxDim == 2
\* number of POST requests issued in one behaviour
MaxRequests == 2
\* largest length of the room list of FloorPlanGenerator
MaxRooms == 2

(***************************************************************************)
(* JavaScript values.  A primitive is a record with the fields t (type),   *)
(* s (text of a string) and n (number).  The decimal text of the number k  *)
(* is the string NumStr(k); every other string is Str(s).  An object is a  *)
(* TLA+ record of its own keys (no object of the program has a key "t").   *)
(***************************************************************************)
Undefined == [t |-> "undefined", s |-> "", n |-> 0]
Null == [t |-> "null", s |-> "", n |-> 0]
NaN == [t |-> "nan", s |-> "", n |-> 0]
Num(k) == [t |-> "number", s |-> "", n |-> k]
Str(x) == [t |-> "string", s |-> x, n |-> 0]
NumStr(k) == [t |-> "string", s |-> "#", n |-> k]
Bool(b) == [t |-> "boolean", s |-> "", n |-> IF b THEN 1 ELSE 0]
EmptyStr == Str("")
EmptyObject == <<>>

IsPrimitive(v) == "t" \in DOMAIN v
IsNumber(v) == IsPrimitive(v) /\ v.t = "number"
IsNaN(v) == IsPrimitive(v) /\ v.t = "nan"
IsNullish(v) == IsPrimitive(v) /\ v.t \in {"undefined", "null"}

\* ToBoolean: the test of `if (v)`, `!v`, `a || b` and `a && b`
Truthy(v) ==
    IF ~IsPrimitive(v) THEN TRUE
    ELSE CASE v.t = "string" -> v.s # ""
           [] v.t = "number" -> v.n # 0
           [] v.t = "boolean" -> v.n = 1
           [] OTHER -> FALSE

\* a || b
Or(a, b) == IF Truthy(a) THEN a ELSE b

\* String(v) for a string and for an object
JSString(v) == IF IsPrimitive(v) THEN v ELSE Str("[object Object]")

\* parseFloat(v): the number a text starts with, NaN when it starts with none
parseFloat(v) ==
    CASE v.t = "string" /\ v.s = "#" -> Num(v.n)
      [] v.t = "number" -> v
      [] OTHER -> NaN

\* Number(v): like parseFloat on a numeric text, but 0 on the empty string
Number(v) ==
    CASE v.t = "string" /\ v.s = "#" -> Num(v.n)
      [] v.t = "string" /\ v.s = "" -> Num(0)
      [] v.t = "number" -> v
      [] v.t = "null" -> Num(0)
      [] v.t = "boolean" -> Num(v.n)
      [] OTHER -> NaN

\* the value JSON.stringify writes for a primitive: NaN is written as null
JSONprimitive(v) == IF IsNaN(v) THEN Null ELSE v

\* o.k, undefined when the object has no such key
Get(o, k) == IF ~IsPrimitive(o) /\ k \in DOMAIN o THEN o[k] ELSE Undefined

\* o?.k
OptGet(o, k) == IF IsPrimitive(o) THEN Undefined ELSE Get(o, k)

\* {...o, [k]: v}
With(o, k, v) == (k :> v) @@ o

(***************************************************************************)
(* What the user can enter.                                                *)
(***************************************************************************)
\* the numbers typed into the number inputs: one below the min of the inputs,
\* the min itself and a larger one
DimValues == {0, 1, MaxDim}
\* e.target.value of a number input: empty, or the text of a number
NumberTexts == {EmptyStr} \cup {NumStr(k) : k \in DimValues}

\* the value a number input shows for the state value v: React writes v as
\* text and the input keeps it only when it is the text of a number
InputNumber(v) ==
    CASE v.t = "number" -> v
      [] v.t = "string" /\ v.s = "#" -> Num(v.n)
      [] OTHER -> NaN

\* constraint validation of <input type="number" min=m> by the browser: a
\* submit event is only dispatched when every input of the form is valid
MinOK(v, m) == IsNaN(InputNumber(v)) \/ InputNumber(v).n >= m
RequiredOK(v) == ~IsNaN(InputNumber(v))

(***************************************************************************)
(* State.                                                                  *)
(***************************************************************************)
VARIABLES
    variant,       \* the form component mounted at "/"
    route,         \* the current location path
    locState,      \* location.state, the navigation state of the location
    formData,      \* formData of the mounted form component
    loading,       \* loading of the mounted form component
    error,         \* error of AutoVastuForm
    errors,        \* errors of VastuPlannerForm
    requests,      \* the POST requests in flight, with the awaiting handler
    nextId,        \* number of requests issued so far
    rLoading,      \* loading of FloorPlanResults
    rError,        \* error of FloorPlanResults
    imageUrl,      \* imageUrl of FloorPlanResults
    effectPending, \* FloorPlanResults has rendered, its effect has not run
    imgStatus,     \* the browser's load of the <img> of FloorPlanResults
    producedBy,    \* history: the request whose response is in locState
    event          \* history: the last step taken

vars == <<variant, route, locState, formData, loading, error, errors,
          requests, nextId, rLoading, rError, imageUrl, effectPending,
          imgStatus, producedBy, event>>

Variants == {"auto", "planner", "generator"}

(***************************************************************************)
(* The floor-plan service: a black box that answers a POST with a status   *)
(* and a body.  The body is JSON text or not; the JSON value is whatever   *)
(* the service sends.                                                      *)
(***************************************************************************)
ImagePath == "/static/floor_plan.png"

\* plan_details echoing the request, or with other dimensions
PlanDetails(body, same) ==
    [plot_width |-> IF same THEN body.plot_width
                    ELSE Num(body.plot_width.n + 1),
     plot_length |-> IF same THEN body.plot_length
                     ELSE Num(body.plot_length.n + 1),
     direction |-> body.plot_direction,
     shape |-> body.plot_shape,
     main_door |-> body.main_door_position]

SuccessValues(body) ==
    {Null,
     [plan_image_url |-> Str(ImagePath)],
     [plan_details |-> PlanDetails(body, TRUE)]}
    \cup {[plan_details |-> With(PlanDetails(body, same), "plan_image_url",
                                 Str(ImagePath))] : same \in BOOLEAN}

\* an error body: null, no detail, a text, or a validation error object
ErrorValues ==
    {Null, EmptyObject, [detail |-> Str("Invalid plot dimensions")],
     [detail |-> [msg |-> Str("field required")]]}

Garbage(ok) == [ok |-> ok, parses |-> FALSE, json |-> Undefined]

Responses(body) ==
    {Garbage(TRUE), Garbage(FALSE)}
    \cup {[ok |-> TRUE, parses |-> TRUE, json |-> v] : v \in SuccessValues(body)}
    \cup {[ok |-> FALSE, parses |-> TRUE, json |-> v] : v \in ErrorValues}

(***************************************************************************)
(* FloorPlanResults                                                        *)
(***************************************************************************)
\* const { floorPlan } = location.state || {};
FPR_floorPlan(state) == Get(Or(state, EmptyObject), "floorPlan")

\* the destructuring of floorPlan.plan_details throws on undefined and null
FPR_renderThrows(fp) == Truthy(fp) /\ IsNullish(Get(fp, "plan_details"))

\* the effect without its test: the URL is built from whatever the plan has
FPR_effectImageUrl_Unguarded(fp, old) ==
    LET path == OptGet(OptGet(fp, "plan_details"), "plan_image_url")
    IN Str("http://localhost:8000"
           \o (IF Truthy(path) THEN path.s ELSE "undefined"))

\* an effect that never sets imageUrl
FPR_effectImageUrl_Skipped(fp, old) == old

\* the effect: the new imageUrl, given the old one
FPR_effectImageUrl(fp, old) ==
    IF Truthy(OptGet(OptGet(fp, "plan_details"), "plan_image_url"))
    THEN Str("http://localhost:8000"
             \o OptGet(OptGet(fp, "plan_details"), "plan_image_url").s)
    ELSE old

\* the render without the early return for a missing floorPlan: the
\* destructuring then throws
FPR_render_NoGuard(fp, l, e, url) ==
    IF ~Truthy(fp) \/ FPR_renderThrows(fp)
    THEN [view |-> "exception", message |-> Null, back |-> "",
          loadingShown |-> FALSE, errorShown |-> Null, img |-> Null,
          imgDisplayed |-> FALSE, details |-> FALSE,
          plot_width |-> Undefined, plot_length |-> Undefined]
    ELSE [view |-> "results", message |-> Null, back |-> "/",
          loadingShown |-> l,
          errorShown |-> IF Truthy(e) THEN e ELSE Null,
          img |-> IF Truthy(url) THEN url ELSE Null,
          imgDisplayed |-> Truthy(url) /\ ~l,
          details |-> TRUE,
          plot_width |-> Get(Get(fp, "plan_details"), "plot_width"),
          plot_length |-> Get(Get(fp, "plan_details"), "plot_length")]

\* the render with plot_width and plot_length taken from each other's key
FPR_render_Swapped(fp, l, e, url) ==
    IF ~Truthy(fp)
    THEN [view |-> "nodata",
          message |-> Str("No floor plan data available. Please generate a new plan."),
          back |-> "/", loadingShown |-> FALSE, errorShown |-> Null,
          img |-> Null, imgDisplayed |-> FALSE, details |-> FALSE,
          plot_width |-> Undefined, plot_length |-> Undefined]
    ELSE IF FPR_renderThrows(fp)
    THEN [view |-> "exception", message |-> Null, back |-> "",
          loadingShown |-> FALSE, errorShown |-> Null, img |-> Null,
          imgDisplayed |-> FALSE, details |-> FALSE,
          plot_width |-> Undefined, plot_length |-> Undefined]
    ELSE [view |-> "results", message |-> Null, back |-> "/",
          loadingShown |-> l,
          errorShown |-> IF Truthy(e) THEN e ELSE Null,
          img |-> IF Truthy(url) THEN url ELSE Null,
          imgDisplayed |-> Truthy(url) /\ ~l,
          details |-> TRUE,
          plot_width |-> Get(Get(fp, "plan_details"), "plot_length"),
          plot_length |-> Get(Get(fp, "plan_details"), "plot_width")]

\* what the component renders
FPR_render(fp, l, e, url) ==
    IF ~Truthy(fp)
    THEN [view |-> "nodata",
          message |-> Str("No floor plan data available. Please generate a new plan."),
          back |-> "/", loadingShown |-> FALSE, errorShown |-> Null,
          img |-> Null, imgDisplayed |-> FALSE, details |-> FALSE,
          plot_width |-> Undefined, plot_length |-> Undefined]
    ELSE IF FPR_renderThrows(fp)
    THEN [view |-> "exception", message |-> Null, back |-> "",
          loadingShown |-> FALSE, errorShown |-> Null, img |-> Null,
          imgDisplayed |-> FALSE, details |-> FALSE,
          plot_width |-> Undefined, plot_length |-> Undefined]
    ELSE [view |-> "results", message |-> Null, back |-> "/",
          loadingShown |-> l,
          errorShown |-> IF Truthy(e) THEN e ELSE Null,
          img |-> IF Truthy(url) THEN url ELSE Null,
          imgDisplayed |-> Truthy(url) /\ ~l,
          details |-> TRUE,
          plot_width |-> Get(Get(fp, "plan_details"), "plot_width"),
          plot_length |-> Get(Get(fp, "plan_details"), "plot_length")]

\* the page as it is on screen
Screen ==
    IF route = "/results"
    THEN FPR_render(FPR_floorPlan(locState), rLoading, rError, imageUrl)
    ELSE [view |-> "form"]

\* the state of a component that is not mounted
FormUnmounted ==
    /\ loading' = FALSE
    /\ error' = Null
    /\ errors' = EmptyObject

ResultsUnmounted ==
    /\ rLoading' = FALSE
    /\ rError' = Null
    /\ imageUrl' = Null
    /\ effectPending' = FALSE
    /\ imgStatus' = "none"

\* FloorPlanResults mounts for the navigation state `state`: useState
\* initial values and the first render; the effect runs when it rendered
ResultsMount(state) ==
    /\ rLoading' = TRUE
    /\ rError' = Null
    /\ imageUrl' = Null
    /\ effectPending' = ~FPR_renderThrows(FPR_floorPlan(state))
    /\ imgStatus' = "none"

(***************************************************************************)
(* History: the last step.  type names the handler, form is formData when  *)
(* the submit handler that the step belongs to started (Null for a step of *)
(* no submit), id the request the step concerns (0: none), response the    *)
(* response it handled.  A request in flight keeps, in form, formData as   *)
(* it was when its handleSubmit started.                                   *)
(***************************************************************************)
Event(type, form, id, response) ==
    [type |-> type, form |-> form, id |-> id, response |-> response]

(***************************************************************************)
(* AutoVastuForm                                                           *)
(***************************************************************************)
AVF_initial ==
    [plot_direction |-> Str("north"),
     plot_width |-> EmptyStr,
     plot_length |-> EmptyStr,
     plot_shape |-> Str("rectangular"),
     main_door_position |-> Str("east")]

\* the options the user picks in the selects (a part of the eight
\* directions and of the three shapes)
AVF_directions == {Str("north"), Str("south")}
AVF_doors == {Str("east"), Str("south")}
AVF_plotShapes == {Str("rectangular")}

\* the inputs of the form and what each can deliver as e.target.value
AVF_inputs ==
    [plot_direction |-> AVF_directions,
     plot_shape |-> AVF_plotShapes,
     plot_width |-> NumberTexts,
     plot_length |-> NumberTexts,
     main_door_position |-> AVF_doors]

\* name.includes('plot_') alone
AVF_isParsed_AllPlot(name) ==
    name \in {"plot_direction", "plot_width", "plot_length", "plot_shape"}

\* name.includes('plot_') && !name.includes('direction')
\*   && !name.includes('shape')
AVF_isParsed(name) ==
    /\ name \in {"plot_direction", "plot_width", "plot_length", "plot_shape"}
    /\ name # "plot_direction"
    /\ name # "plot_shape"

AVF_fieldValue(name, value) ==
    IF AVF_isParsed(name) THEN parseFloat(value) ELSE value

\* the browser dispatches submit only when the inputs satisfy min="1"
AVF_constraintsOK(fd) == MinOK(fd.plot_width, 1) /\ MinOK(fd.plot_length, 1)

\* a submit button that is never disabled
AVF_submitEnabled_Always(l) == TRUE

\* the submit button is disabled={loading}
AVF_submitEnabled(l) == ~l

AVF_requestData(fd) ==
    [plot_direction |-> fd.plot_direction,
     plot_width |-> Number(fd.plot_width),
     plot_length |-> Number(fd.plot_length),
     plot_shape |-> fd.plot_shape,
     main_door_position |-> fd.main_door_position]

\* the test of the numbers with the length left out
AVF_invalidNumbers_WidthOnly(rd) == IsNaN(rd.plot_width)

\* isNaN(requestData.plot_width) || isNaN(requestData.plot_length)
AVF_invalidNumbers(rd) == IsNaN(rd.plot_width) \/ IsNaN(rd.plot_length)

\* JSON.stringify(requestData)
AVF_body(rd) == [k \in DOMAIN rd |-> JSONprimitive(rd[k])]

\* the state with the request in the place of the response
AVF_navState_Input(data, rd) == [floorPlan |-> rd, originalInput |-> rd]

\* the state handed to navigate('/results', { state })
AVF_navState(data, rd) == [floorPlan |-> data, originalInput |-> rd]

\* the response.ok branch is taken and response.json() resolves
AVF_succeeds(resp) == resp.ok /\ resp.parses

\* err.message of the error caught when the response does not lead to
\* navigate: response.json() rejects, errorData.detail throws on null, or
\* the Error thrown for a response that is not ok
AVF_failureMessage(resp) ==
    IF ~resp.parses THEN Str("Unexpected end of JSON input")
    ELSE IF IsNullish(resp.json)
    THEN Str("Cannot read properties of null (reading 'detail')")
    ELSE JSString(Or(Get(resp.json, "detail"),
                     Str("Failed to generate floor plan")))

\* err.message of a rejected fetch
FetchRejected == Str("Failed to fetch")

\* no finally block: loading stays as handleSubmit set it
AVF_finallyLoading_Missing == TRUE

\* finally { setLoading(false) }
AVF_finallyLoading == FALSE

AVF_handleInputChange(name, value) ==
    /\ variant = "auto" /\ route = "/"
    /\ formData' = With(formData, name, AVF_fieldValue(name, value))
    /\ event' = Event("handleInputChange", Null, 0, Null)
    /\ UNCHANGED <<variant, route, locState, loading, error, errors, requests,
                   nextId, rLoading, rError, imageUrl, effectPending,
                   imgStatus, producedBy>>

\* handleSubmit up to its first await
\* a catch block that issues the failed request again
AVF_catch_Retry(reqs, r) ==
    (reqs \ {r}) \cup {[r EXCEPT !.phase = "fetch", !.ok = FALSE]}

\* the requests left by the catch block: the failed one is over and none is
\* started
AVF_catch(reqs, r) == reqs \ {r}

\* a submit that leaves the error of the submit before
AVF_submitError_Kept(old) == old

\* setError(null) at the start of handleSubmit
AVF_submitError(old) == Null

AVF_handleSubmit ==
    /\ variant = "auto" /\ route = "/"
    /\ AVF_submitEnabled(loading)
    /\ AVF_constraintsOK(formData)
    /\ LET rd == AVF_requestData(formData) IN
       IF AVF_invalidNumbers(rd)
       THEN /\ error' = Str("Please enter valid numbers for width and length")
            /\ loading' = FALSE
            /\ UNCHANGED <<requests, nextId>>
            /\ event' = Event("handleSubmit", formData, 0, Null)
       ELSE /\ nextId < MaxRequests
            /\ error' = AVF_submitError(error)
            /\ loading' = TRUE
            /\ nextId' = nextId + 1
            /\ requests' = requests \cup
                   {[id |-> nextId + 1, form |-> formData,
                     requestData |-> rd, body |-> AVF_body(rd),
                     phase |-> "fetch", ok |-> FALSE]}
            /\ event' = Event("handleSubmit", formData, nextId + 1, Null)
    /\ UNCHANGED <<variant, route, locState, formData, errors, rLoading,
                   rError, imageUrl, effectPending, imgStatus, producedBy>>

\* fetch rejects: catch and finally run
AVF_fetchRejects(r) ==
    /\ r \in requests /\ r.phase = "fetch"
    /\ requests' = AVF_catch(requests, r)
    /\ error' = FetchRejected
    /\ loading' = AVF_finallyLoading
    /\ event' = Event("fetchRejects", r.form, r.id, Null)
    /\ UNCHANGED <<variant, route, locState, formData, errors, nextId,
                   rLoading, rError, imageUrl, effectPending, imgStatus,
                   producedBy>>

\* fetch resolves with the status of the response; handleSubmit goes on to
\* await response.json()
AVF_fetchResolves(r, ok) ==
    /\ r \in requests /\ r.phase = "fetch"
    /\ requests' = (requests \ {r})
                     \cup {[r EXCEPT !.phase = "json", !.ok = ok]}
    /\ event' = Event("fetchResolves", Null, r.id, Null)
    /\ UNCHANGED <<variant, route, locState, formData, loading, error, errors,
                   nextId, rLoading, rError, imageUrl, effectPending,
                   imgStatus, producedBy>>

\* response.json() settles on the body resp of the response: navigate, or
\* throw into catch; then finally
AVF_jsonSettles(r, resp) ==
    /\ r \in requests /\ r.phase = "json"
    /\ resp \in Responses(r.body) /\ resp.ok = r.ok
    /\ IF AVF_succeeds(resp)
       THEN /\ requests' = requests \ {r}
            /\ route' = "/results"
            /\ locState' = AVF_navState(resp.json, r.requestData)
            /\ producedBy' = r.id
            /\ formData' = AVF_initial
            /\ FormUnmounted
            /\ ResultsMount(locState')
            /\ event' = Event("navigate", r.form, r.id, resp)
       ELSE /\ requests' = AVF_catch(requests, r)
            /\ error' = AVF_failureMessage(resp)
            /\ loading' = AVF_finallyLoading
            /\ event' = Event("requestFailed", r.form, r.id, resp)
            /\ UNCHANGED <<route, locState, producedBy, formData, errors,
                           rLoading, rError, imageUrl, effectPending,
                           imgStatus>>
    /\ UNCHANGED <<variant, nextId>>

(***************************************************************************)
(* FloorPlanResults: the effect, the image events and the back buttons     *)
(***************************************************************************)
FPR_useEffect ==
    /\ route = "/results" /\ effectPending
    /\ effectPending' = FALSE
    /\ LET fp == FPR_floorPlan(locState)
           url == FPR_effectImageUrl(fp, imageUrl)
       IN /\ imageUrl' = url
          /\ imgStatus' = IF FPR_render(fp, rLoading, rError, url).img # Null
                          THEN "loading" ELSE "none"
    /\ event' = Event("useEffect", Null, 0, Null)
    /\ UNCHANGED <<variant, route, locState, formData, loading, error, errors,
                   requests, nextId, rLoading, rError, producedBy>>

\* the browser loaded the image: onLoad
FPR_onLoad ==
    /\ route = "/results" /\ imgStatus = "loading"
    /\ imgStatus' = "loaded"
    /\ rLoading' = FALSE
    /\ event' = Event("onLoad", Null, 0, Null)
    /\ UNCHANGED <<variant, route, locState, formData, loading, error, errors,
                   requests, nextId, rError, imageUrl, effectPending,
                   producedBy>>

\* the browser could not load the image: onError
FPR_onError ==
    /\ route = "/results" /\ imgStatus = "loading"
    /\ imgStatus' = "failed"
    /\ rError' = Str("Failed to load floor plan image")
    /\ rLoading' = FALSE
    /\ event' = Event("onError", Null, 0, Null)
    /\ UNCHANGED <<variant, route, locState, formData, loading, error, errors,
                   requests, nextId, imageUrl, effectPending, producedBy>>

(***************************************************************************)
(* VastuPlannerForm                                                        *)
(***************************************************************************)
VPF_initial ==
    [plotLength |-> EmptyStr,
     plotWidth |-> EmptyStr,
     plotDirection |-> EmptyStr,
     mainDoor |-> EmptyStr,
     kitchenPreference |-> EmptyStr,
     poojaRoom |-> EmptyStr,
     bedrooms |-> EmptyStr,
     parking |-> Bool(FALSE)]

\* the options the user picks in the selects: "Select Direction" (the empty
\* value) and a part of the eight directions
VPF_directions == {EmptyStr, Str("North"), Str("South")}

\* the inputs of the form and what each can deliver as e.target.value;
\* none of them is a checkbox
VPF_inputs ==
    [plotLength |-> NumberTexts,
     plotWidth |-> NumberTexts,
     plotDirection |-> VPF_directions,
     mainDoor |-> VPF_directions,
     kitchenPreference |-> {EmptyStr, Str("South-East")},
     poojaRoom |-> {Str("North-East")}]

\* type === 'checkbox' ? checked : value
VPF_fieldValue(type, checked, value) ==
    IF type = "checkbox" THEN checked ELSE value

\* the plot rule of validateForm
VPF_plotMissing(fd) == ~Truthy(fd.plotLength) \/ ~Truthy(fd.plotWidth)

\* the direction rule of validateForm
VPF_directionMissing(fd) == ~Truthy(fd.plotDirection)

\* the cross-field rule written with the values of the other form
VPF_vastuConflict_Lowercase(fd) ==
    fd.mainDoor = Str("south") /\ fd.plotDirection = Str("south")

\* the cross-field rule with the test of the plot direction left out
VPF_vastuConflict_DoorOnly(fd) == fd.mainDoor = Str("South")

\* the cross-field rule of validateForm
VPF_vastuConflict(fd) ==
    fd.mainDoor = Str("South") /\ fd.plotDirection = Str("South")

\* newErrors of validateForm
VPF_newErrors(fd) ==
    (IF VPF_plotMissing(fd)
     THEN "plot" :> Str("Plot dimensions are required") ELSE EmptyObject)
    @@ (IF VPF_directionMissing(fd)
        THEN "direction" :> Str("Plot direction is required")
        ELSE EmptyObject)
    @@ (IF VPF_vastuConflict(fd)
        THEN "vastuConflict" :>
               Str("South-facing main door for south-facing plot is not recommended")
        ELSE EmptyObject)

\* the value validateForm returns: Object.keys(newErrors).length === 0
VPF_validateForm(fd) == DOMAIN VPF_newErrors(fd) = {}

\* the formData handed to navigate: the object literal declared inside the
\* if block of handleSubmit, which has no key
VPF_navState(fd) == EmptyObject

VPF_handleInputChange(name, value) ==
    /\ variant = "planner" /\ route = "/"
    /\ formData' = With(formData, name,
                        VPF_fieldValue("number", Bool(FALSE), value))
    /\ event' = Event("handleInputChange", Null, 0, Null)
    /\ UNCHANGED <<variant, route, locState, loading, error, errors, requests,
                   nextId, rLoading, rError, imageUrl, effectPending,
                   imgStatus, producedBy>>

VPF_handleSubmit ==
    /\ variant = "planner" /\ route = "/"
    /\ event' = Event("handleSubmit", formData, 0, Null)
    /\ IF VPF_validateForm(formData)
       THEN /\ route' = "/results"
            /\ locState' = VPF_navState(formData)
            /\ formData' = VPF_initial
            /\ FormUnmounted
            /\ ResultsMount(locState')
       ELSE /\ errors' = VPF_newErrors(formData)
            /\ UNCHANGED <<route, locState, formData, loading, error,
                           rLoading, rError, imageUrl, effectPending,
                           imgStatus>>
    /\ UNCHANGED <<variant, requests, nextId, producedBy>>

(***************************************************************************)
(* FloorPlanGenerator                                                      *)
(***************************************************************************)
FPG_initial ==
    [width |-> Num(10),
     length |-> Num(15),
     scale |-> Num(1),
     rooms |-> <<[width |-> Num(4), length |-> Num(5),
                  position_x |-> Num(0), position_y |-> Num(0),
                  room_type |-> Str("living_room")]>>,
     style |-> Str("pencil")]

\* the room addRoom appends
FPG_newRoom ==
    [width |-> Num(4), length |-> Num(5), position_x |-> Num(0),
     position_y |-> Num(0), room_type |-> Str("bedroom")]

\* the inputs of the plot and what each can deliver as e.target.value (a part
\* of the texts of each, the width with the most)
FPG_inputs ==
    [width |-> {EmptyStr, NumStr(0), NumStr(MaxDim)},
     length |-> {NumStr(MaxDim)},
     scale |-> {EmptyStr}]

\* the inputs of a room the user changes, and what each can deliver (a part
\* of the five inputs of a room and of the four room types)
FPG_roomInputs ==
    [room_type |-> {Str("kitchen")},
     width |-> {NumStr(MaxDim)},
     position_x |-> {EmptyStr}]

\* parseFloat(value) || value
FPG_fieldValue(value) == Or(parseFloat(value), value)

\* a filter that drops the room before the one asked for
FPG_removeAt_Before(rooms, index) ==
    [i \in 1..(Len(rooms) - 1) |->
        IF i < index THEN rooms[i] ELSE rooms[i + 1]]

\* rooms.filter((_, i) => i !== index), index counted from 0
FPG_removeAt(rooms, index) ==
    [i \in 1..(Len(rooms) - 1) |->
        IF i <= index THEN rooms[i] ELSE rooms[i + 1]]

\* updatedRooms[index] = {...updatedRooms[index], [field]: ...}
FPG_setRoom(rooms, index, field, value) ==
    [rooms EXCEPT ![index + 1] = With(rooms[index + 1], field,
                                      FPG_fieldValue(value))]

\* the browser dispatches submit only when the inputs satisfy required and
\* min (1 for the dimensions, 0.1 for the scale)
FPG_constraintsOK(fd) ==
    /\ RequiredOK(fd.width) /\ MinOK(fd.width, 1)
    /\ RequiredOK(fd.length) /\ MinOK(fd.length, 1)
    /\ RequiredOK(fd.scale) /\ MinOK(fd.scale, 1)
    /\ \A i \in DOMAIN fd.rooms :
          /\ RequiredOK(fd.rooms[i].width) /\ MinOK(fd.rooms[i].width, 1)
          /\ RequiredOK(fd.rooms[i].length) /\ MinOK(fd.rooms[i].length, 1)
          /\ RequiredOK(fd.rooms[i].position_x)
          /\ RequiredOK(fd.rooms[i].position_y)

\* the submit button is disabled={loading}
FPG_submitEnabled(l) == ~l

\* the state handed to navigate('/results', { state: formData })
FPG_navState(fd) == fd

FPG_unchanged ==
    UNCHANGED <<variant, route, locState, loading, error, errors, requests,
                nextId, rLoading, rError, imageUrl, effectPending, imgStatus,
                producedBy>>

FPG_handleInputChange(name, value) ==
    /\ variant = "generator" /\ route = "/"
    /\ formData' = With(formData, name, FPG_fieldValue(value))
    /\ event' = Event("handleInputChange", Null, 0, Null)
    /\ FPG_unchanged

FPG_handleRoomChange(index, field, value) ==
    /\ variant = "generator" /\ route = "/"
    /\ index + 1 \in DOMAIN formData.rooms
    /\ formData' = With(formData, "rooms",
                        FPG_setRoom(formData.rooms, index, field, value))
    /\ event' = Event("handleRoomChange", Null, 0, Null)
    /\ FPG_unchanged

FPG_addRoom ==
    /\ variant = "generator" /\ route = "/"
    /\ Len(formData.rooms) < MaxRooms
    /\ formData' = With(formData, "rooms",
                        Append(formData.rooms, FPG_newRoom))
    /\ event' = Event("addRoom", Null, 0, Null)
    /\ FPG_unchanged

FPG_removeRoom(index) ==
    /\ variant = "generator" /\ route = "/"
    /\ index + 1 \in DOMAIN formData.rooms
    /\ formData' = With(formData, "rooms",
                        FPG_removeAt(formData.rooms, index))
    /\ event' = Event("removeRoom", Null, 0, Null)
    /\ FPG_unchanged

\* generateFloorPlan: setLoading(true), then navigate, which unmounts the form
FPG_generateFloorPlan ==
    /\ variant = "generator" /\ route = "/"
    /\ FPG_submitEnabled(loading)
    /\ FPG_constraintsOK(formData)
    /\ route' = "/results"
    /\ locState' = FPG_navState(formData)
    /\ formData' = FPG_initial
    /\ FormUnmounted
    /\ ResultsMount(locState')
    /\ event' = Event("generateFloorPlan", formData, 0, Null)
    /\ UNCHANGED <<variant, requests, nextId, producedBy>>

\* the form component the router mounts at "/", with its initial formData
InitialForm(v) ==
    CASE v = "auto" -> AVF_initial
      [] v = "planner" -> VPF_initial
      [] v = "generator" -> FPG_initial

\* a click on "Back to Form" or "Generate Another Plan": navigate('/')
FPR_back ==
    /\ route = "/results" /\ ~effectPending
    /\ Screen.view \in {"nodata", "results"}
    /\ route' = Screen.back
    /\ locState' = Null
    /\ producedBy' = 0
    /\ formData' = InitialForm(variant)
    /\ FormUnmounted
    /\ ResultsUnmounted
    /\ event' = Event("back", Null, 0, Null)
    /\ UNCHANGED <<variant, requests, nextId>>

(***************************************************************************)
(* The browser loads the application at a URL typed by the user: every     *)
(* component starts afresh, there is no navigation state, and the requests *)
(* of the page that is left are aborted.                                   *)
(***************************************************************************)
PageLoad(path) ==
    /\ route' = path
    /\ locState' = Null
    /\ producedBy' = 0
    /\ formData' = InitialForm(variant)
    /\ FormUnmounted
    /\ requests' = {}
    /\ IF path = "/results" THEN ResultsMount(Null) ELSE ResultsUnmounted
    /\ event' = Event("load", Null, 0, Null)
    /\ UNCHANGED <<variant, nextId>>

Init ==
    /\ variant \in Variants
    /\ route = "/"
    /\ locState = Null
    /\ formData = InitialForm(variant)
    /\ loading = FALSE
    /\ error = Null
    /\ errors = EmptyObject
    /\ requests = {}
    /\ nextId = 0
    /\ rLoading = FALSE
    /\ rError = Null
    /\ imageUrl = Null
    /\ effectPending = FALSE
    /\ imgStatus = "none"
    /\ producedBy = 0
    /\ event = Event("init", Null, 0, Null)

Next ==
    \/ \E name \in DOMAIN AVF_inputs : \E value \in AVF_inputs[name] :
          AVF_handleInputChange(name, value)
    \/ AVF_handleSubmit
    \/ \E r \in requests : AVF_fetchRejects(r)
    \/ \E r \in requests : \E ok \in BOOLEAN : AVF_fetchResolves(r, ok)
    \/ \E r \in requests : \E resp \in Responses(r.body) :
          AVF_jsonSettles(r, resp)
    \/ \E name \in DOMAIN VPF_inputs : \E value \in VPF_inputs[name] :
          VPF_handleInputChange(name, value)
    \/ VPF_handleSubmit
    \/ \E name \in DOMAIN FPG_inputs : \E value \in FPG_inputs[name] :
          FPG_handleInputChange(name, value)
    \/ \E index \in 0..(MaxRooms - 1) : \E field \in DOMAIN FPG_roomInputs :
          \E value \in FPG_roomInputs[field] :
             FPG_handleRoomChange(index, field, value)
    \/ FPG_addRoom
    \/ \E index \in 0..(MaxRooms - 1) : FPG_removeRoom(index)
    \/ FPG_generateFloorPlan
    \/ FPR_useEffect
    \/ FPR_onLoad
    \/ FPR_onError
    \/ FPR_back
    \/ \E path \in {"/", "/results"} : PageLoad(path)

Spec == Init /\ [][Next]_vars

\* fetch settles: the promise of fetch resolves or rejects
FetchSettles ==
    \E r \in requests :
        \/ AVF_fetchRejects(r)
        \/ \E ok \in BOOLEAN : AVF_fetchResolves(r, ok)

\* the promise of response.json() settles
JsonSettles ==
    \E r \in requests : \E resp \in Responses(r.body) :
        AVF_jsonSettles(r, resp)

\* the promise that handleSubmit awaits for its request settles
RequestSettles == FetchSettles \/ JsonSettles

\* the program with a network whose every request eventually resolves or
\* rejects: a promise that handleSubmit awaits does not stay pending forever
FairSpec == Spec /\ WF_vars(RequestSettles)

(***************************************************************************)
(* Vocabulary of the properties.                                           *)
(***************************************************************************)
\* the last step was the synchronous part of a submit handler
IsSubmit == event.type \in {"handleSubmit", "generateFloorPlan"}

\* the plot dimensions and direction held by a formData of the variant
PlotWidth(form) ==
    CASE variant = "auto" -> form.plot_width
      [] variant = "planner" -> form.plotWidth
      [] variant = "generator" -> form.width

PlotLength(form) ==
    CASE variant = "auto" -> form.plot_length
      [] variant = "planner" -> form.plotLength
      [] variant = "generator" -> form.length

\* v > 0
Positive(v) == IsNumber(Number(v)) /\ Number(v).n > 0

\* the form has a plot direction field and one is selected
DirectionSelected(form) ==
    CASE variant = "auto" -> Truthy(form.plot_direction)
      [] variant = "planner" -> Truthy(form.plotDirection)
      [] variant = "generator" -> FALSE

\* the form shows a message about the dimensions
DimensionMessageShown ==
    CASE variant = "auto" -> Truthy(error)
      [] variant = "planner" -> "plot" \in DOMAIN errors
      [] variant = "generator" -> FALSE

\* the form shows no validation message
NoValidationError ==
    CASE variant = "auto" -> ~Truthy(error)
      [] variant = "planner" -> DOMAIN errors = {}
      [] variant = "generator" -> TRUE

\* the submit that was the last step went on: it issued its request or it
\* navigated to the results view
SubmissionProceeded ==
    CASE variant = "auto" -> \E r \in requests : r.id = event.id
      [] variant = "planner" -> route = "/results"
      [] variant = "generator" -> route = "/results"

PendingIds == {r.id : r \in requests}

(***************************************************************************)
(* C1.  For every form state in which the plot width is <= 0 or the plot   *)
(* length is <= 0 (a dimension never filled in included), a submit fails   *)
(* validation and a message about the dimensions is displayed: the form    *)
(* stays on its route, no request is issued and the message is shown.      *)
(***************************************************************************)
C1_NonPositiveRejected ==
    (IsSubmit /\ (~Positive(PlotWidth(event.form))
                  \/ ~Positive(PlotLength(event.form))))
    => (route = "/" /\ requests = {} /\ DimensionMessageShown)

(***************************************************************************)
(* C2, as stated.  For every form state with width > 0, length > 0 and a   *)
(* selected plot direction, whatever the other fields hold, a submit       *)
(* passes validation: no validation error is set and the submission        *)
(* proceeds.                                                               *)
(***************************************************************************)
C2_ValidPasses_Original ==
    (IsSubmit /\ Positive(PlotWidth(event.form))
              /\ Positive(PlotLength(event.form))
              /\ DirectionSelected(event.form))
    => (NoValidationError /\ SubmissionProceeded)

\* the one combination of the other fields that VastuPlannerForm rejects
SouthSouth(form) ==
    /\ variant = "planner"
    /\ form.mainDoor = Str("South")
    /\ form.plotDirection = Str("South")

(***************************************************************************)
(* C2, amended.  For every form state with width > 0, length > 0 and a     *)
(* selected plot direction, except main door South with plot direction     *)
(* South in VastuPlannerForm, whatever the other fields hold, a submit     *)
(* passes validation: no validation error is set and the submission        *)
(* proceeds.                                                               *)
(***************************************************************************)
C2_ValidPasses ==
    (IsSubmit /\ Positive(PlotWidth(event.form))
              /\ Positive(PlotLength(event.form))
              /\ DirectionSelected(event.form)
              /\ ~SouthSouth(event.form))
    => (NoValidationError /\ SubmissionProceeded)

\* a submit of VastuPlannerForm with a South main door, a North plot and a
\* kitchen preference has passed
C2_Witness ==
    /\ variant = "planner" /\ IsSubmit
    /\ Positive(PlotWidth(event.form)) /\ Positive(PlotLength(event.form))
    /\ event.form.mainDoor = Str("South")
    /\ event.form.plotDirection = Str("North")
    /\ event.form.kitchenPreference = Str("South-East")
    /\ route = "/results"

\* the width and length of the specification a navigation state carries
NavWidth(state) ==
    IF "originalInput" \in DOMAIN state
    THEN Get(state.originalInput, "plot_width") ELSE Get(state, "width")

NavLength(state) ==
    IF "originalInput" \in DOMAIN state
    THEN Get(state.originalInput, "plot_length") ELSE Get(state, "length")

\* v is a number and v > 0
PositiveNumber(v) == IsNumber(v) /\ v.n > 0

(***************************************************************************)
(* C3.  Every PlotSpecification that leaves the form, as the body of a     *)
(* POST request or as the navigation state handed to the results view, has *)
(* width > 0 and length > 0.                                               *)
(***************************************************************************)
C3_PositiveDimensionsLeave ==
    /\ \A r \in requests :
          PositiveNumber(r.body.plot_width) /\ PositiveNumber(r.body.plot_length)
    /\ (route = "/results" /\ ~IsPrimitive(locState))
          => (PositiveNumber(NavWidth(locState))
              /\ PositiveNumber(NavLength(locState)))

(***************************************************************************)
(* C4.  When the results view is reached with no navigation state, it is   *)
(* in the "no data" state: it shows the no-data message with a back        *)
(* action, no image and no plot details, and the back action leads to the  *)
(* form route.                                                             *)
(***************************************************************************)
C4_NoDataFallback ==
    /\ (route = "/results" /\ IsNullish(locState))
          => /\ Screen.view = "nodata"
             /\ Truthy(Screen.message)
             /\ Screen.back = "/"
             /\ Screen.img = Null
             /\ ~Screen.details
             /\ ~Screen.loadingShown
    /\ event.type = "back" => (route = "/" /\ Screen.view = "form")

\* the results view was loaded directly and has rendered
C4_Witness ==
    /\ route = "/results" /\ IsNullish(locState)
    /\ event.type = "useEffect"
    /\ Screen.view = "nodata"

\* the specification a navigation state carries
CarriedSpec(state) ==
    IF "originalInput" \in DOMAIN state THEN state.originalInput ELSE state

\* the navigation state carries a specification and no floor plan
CarriesSpecOnly(state) ==
    /\ ~IsPrimitive(state)
    /\ ~Truthy(FPR_floorPlan(state))
    /\ PositiveNumber(NavWidth(state))

(***************************************************************************)
(* C5.  When the results view mounts with a carried specification but      *)
(* without floor-plan data, it issues the network request using the        *)
(* carried specification and is in the loading state while that request    *)
(* is pending; it is not in the "no data" state.                           *)
(***************************************************************************)
C5_ResultsFetchesOnMount ==
    (route = "/results" /\ CarriesSpecOnly(locState))
    => /\ Screen.view # "nodata"
       /\ (~effectPending /\ rLoading)
             => \E r \in requests : r.requestData = CarriedSpec(locState)
       /\ requests # {} => Screen.loadingShown

(***************************************************************************)
(* C6, as stated.  After a valid submit whose request succeeds (2xx), the  *)
(* application navigates to the results view and the floor plan carried in *)
(* the navigation state is exactly the response of the service.            *)
(***************************************************************************)
C6_SuccessNavigates_Original ==
    (event.type \in {"navigate", "requestFailed"} /\ event.response.ok)
    => (route = "/results" /\ FPR_floorPlan(locState) = event.response.json)

(***************************************************************************)
(* C6, amended.  After a valid submit whose request succeeds (2xx) with a  *)
(* body that parses as JSON, the application navigates to the results view *)
(* and the floor plan carried in the navigation state is exactly the       *)
(* parsed response of the service.                                         *)
(***************************************************************************)
C6_SuccessNavigates ==
    (event.type \in {"navigate", "requestFailed"}
       /\ event.response.ok /\ event.response.parses)
    => (route = "/results" /\ locState.floorPlan = event.response.json)

\* a request succeeded with a floor plan and the application navigated
C6_Witness ==
    /\ event.type = "navigate" /\ event.response.ok
    /\ route = "/results"
    /\ Truthy(Get(event.response.json, "plan_details"))

\* the specification a form builds from its formData on submit
SpecOf(form) ==
    CASE variant = "auto" -> AVF_requestData(form)
      [] OTHER -> form

\* the navigation state contains the specification spec
NavContains(state, spec) ==
    CASE variant = "auto" -> Get(state, "originalInput") = spec
      [] variant = "planner" ->
            \A k \in {"plotWidth", "plotLength", "plotDirection", "mainDoor"} :
               Get(state, k) = spec[k]
      [] variant = "generator" ->
            \A k \in DOMAIN spec : Get(state, k) = spec[k]

(***************************************************************************)
(* C7.  On every valid submit (positive dimensions, validation passed),    *)
(* the navigation state passed to the results view contains the plot       *)
(* specification built from the form's field values at the moment of       *)
(* submit, in every form variant.                                          *)
(***************************************************************************)
C7_NavCarriesSpec ==
    (event.type \in {"handleSubmit", "generateFloorPlan", "navigate"}
       /\ route = "/results"
       /\ Positive(PlotWidth(event.form)) /\ Positive(PlotLength(event.form)))
    => NavContains(locState, SpecOf(event.form))

(***************************************************************************)
(* C8.  When the request fails (transport error, or a response that is not *)
(* 2xx), the form ends with an error message set and loading = false, and  *)
(* no navigation to the results view has happened for that submission.     *)
(***************************************************************************)
C8_FailureReturnsToIdle ==
    (\/ event.type = "fetchRejects"
     \/ event.type = "requestFailed" /\ ~event.response.ok)
    => /\ Truthy(error)
       /\ loading = FALSE
       /\ route = "/" /\ IsNullish(locState) /\ producedBy # event.id
       /\ event.id \notin PendingIds

\* a response that is not 2xx came with a detail, which the form shows
C8_Witness ==
    /\ event.type = "requestFailed" /\ ~event.response.ok
    /\ error = Str("Invalid plot dimensions")
    /\ ~loading /\ route = "/"

(***************************************************************************)
(* C9.  In every reachable state at most one network request is in flight  *)
(* per screen: while a request of the form has not resolved the form is    *)
(* loading and no second request exists.                                   *)
(***************************************************************************)
C9_OneInFlight ==
    /\ Cardinality(requests) <= 1
    /\ requests # {} => (loading /\ route = "/")

\* the second request of a form is in flight, the first having resolved
C9_Witness ==
    /\ \E r \in requests : r.id = 2
    /\ loading

(***************************************************************************)
(* C10.  The results view never shows image data before the request that   *)
(* produced it has resolved: whenever the view holds a floor plan or       *)
(* renders the image element, the request that produced the floor plan has *)
(* been issued and is no longer in flight, and the image is the image of   *)
(* that response.                                                          *)
(***************************************************************************)
C10_ImageAfterResolution ==
    (route = "/results"
       /\ (Truthy(FPR_floorPlan(locState)) \/ Screen.img # Null))
    => /\ producedBy \in 1..nextId
       /\ producedBy \notin PendingIds
       /\ Screen.img # Null =>
             Truthy(Get(Get(FPR_floorPlan(locState), "plan_details"),
                        "plan_image_url"))

\* the image element is rendered for the response of a resolved request
C10_Witness ==
    /\ route = "/results" /\ Screen.img # Null
    /\ producedBy \in 1..nextId

\* the image field of a floor plan
ImageField(fp) == OptGet(OptGet(fp, "plan_details"), "plan_image_url")

(***************************************************************************)
(* C11.  Given a failed response or a failed image load, the view shows an *)
(* error message and renders no image element.                             *)
(***************************************************************************)
C11_FailureShowsErrorAndNoImage ==
    /\ event.type \in {"fetchRejects", "requestFailed"}
          => (Truthy(error) /\ Screen.view = "form")
    /\ (route = "/results" /\ imgStatus = "failed")
          => (Screen.errorShown # Null /\ Screen.img = Null)

(***************************************************************************)
(* C12, as stated.  Given a successful response that contains an image     *)
(* field, the results view (once its effect has run) renders an image      *)
(* element whose source is that URL.                                       *)
(***************************************************************************)
C12_ImageRendered_Original ==
    (route = "/results" /\ ~effectPending
       /\ Truthy(ImageField(FPR_floorPlan(locState))))
    => Screen.img = ImageField(FPR_floorPlan(locState))

(***************************************************************************)
(* C12, amended.  Given a successful response that contains the image      *)
(* field plan_details.plan_image_url, the results view (once its effect    *)
(* has run) renders an image element whose source is that URL prefixed     *)
(* with the origin of the service, http://localhost:8000.                  *)
(***************************************************************************)
C12_ImageRendered ==
    (route = "/results" /\ ~effectPending
       /\ Truthy(ImageField(FPR_floorPlan(locState))))
    => /\ Screen.view = "results"
       /\ Screen.img = Str("http://localhost:8000"
                            \o ImageField(FPR_floorPlan(locState)).s)
       /\ producedBy \in 1..nextId

\* the image element of a successful response is on screen
C12_Witness ==
    /\ route = "/results" /\ event.type = "useEffect"
    /\ Truthy(ImageField(FPR_floorPlan(locState)))
    /\ Screen.img = Str("http://localhost:8000/static/floor_plan.png")

(***************************************************************************)
(* C13, as stated.  For every successful submission, the width and length  *)
(* shown by the results view are the width and length the user submitted.  *)
(***************************************************************************)
C13_ShownDimensions_Original ==
    (route = "/results" /\ Screen.view = "results")
    => /\ Screen.plot_width = locState.originalInput.plot_width
       /\ Screen.plot_length = locState.originalInput.plot_length

\* the response echoes the submitted dimensions in plan_details
Echoes(state) ==
    /\ Get(Get(state.floorPlan, "plan_details"), "plot_width")
          = state.originalInput.plot_width
    /\ Get(Get(state.floorPlan, "plan_details"), "plot_length")
          = state.originalInput.plot_length

(***************************************************************************)
(* C13, amended.  For every successful submission, the width and length    *)
(* shown by the results view are the plot_width and plot_length of         *)
(* plan_details in the response of the service; they are the width and     *)
(* length the user submitted whenever the service echoes these.            *)
(***************************************************************************)
C13_ShownDimensions ==
    (route = "/results" /\ Screen.view = "results")
    => /\ Screen.plot_width
            = Get(Get(locState.floorPlan, "plan_details"), "plot_width")
       /\ Screen.plot_length
            = Get(Get(locState.floorPlan, "plan_details"), "plot_length")
       /\ event.type = "navigate"
            => /\ locState.floorPlan = event.response.json
               /\ Echoes(locState)
                    => /\ Screen.plot_width = Number(event.form.plot_width)
                       /\ Screen.plot_length = Number(event.form.plot_length)

\* a submission with different width and length was echoed and is shown
C13_Witness ==
    /\ route = "/results" /\ Screen.view = "results"
    /\ event.type = "navigate" /\ Echoes(locState)
    /\ Screen.plot_width = Num(1) /\ Screen.plot_length = Num(2)
    /\ event.form.plot_width = Num(1) /\ event.form.plot_length = Num(2)

\* the requests in flight that wait for fetch to settle
Fetching(reqs) == {r \in reqs : r.phase = "fetch"}

(***************************************************************************)
(* C14.  A failure is never retried automatically: a request is only       *)
(* started by a submit of the user, which starts exactly one; the step of  *)
(* a request failure leaves that request over and starts none; an image    *)
(* load is only started by the effect of a mount of the results view, and  *)
(* after an image-load failure none is started until the view is left.     *)
(***************************************************************************)
C14_NoAutomaticRetry ==
    [][/\ (Fetching(requests') \ requests # {})
            => /\ event'.type = "handleSubmit"
               /\ nextId' = nextId + 1
               /\ {r.id : r \in requests'} \ PendingIds = {nextId'}
       /\ event'.type \in {"fetchRejects", "requestFailed"}
            => /\ event'.id \notin {r.id : r \in requests'}
               /\ requests' \subseteq requests
               /\ imgStatus' = imgStatus
       /\ (imgStatus' = "loading" /\ imgStatus # "loading")
            => (event'.type = "useEffect" /\ imgStatus = "none")
       /\ imgStatus = "failed"
            => /\ requests' = requests
               /\ \/ imgStatus' = "failed"
                  \/ imgStatus' = "none"
                       /\ event'.type \in {"back", "load"}]_vars

\* a request of the form failed and nothing is in flight after it
C14_Witness ==
    /\ event.type \in {"fetchRejects", "requestFailed"}
    /\ event.id = nextId /\ requests = {} /\ imgStatus = "none"
    /\ route = "/" /\ ~loading

(***************************************************************************)
(* C15.  In VastuPlannerForm a submit with main door = South and plot      *)
(* direction = South is rejected: the Vastu-conflict message is set and no *)
(* navigation happens, even when the dimensions and the direction are      *)
(* otherwise valid.                                                        *)
(***************************************************************************)
C15_SouthSouthRejected ==
    (variant = "planner" /\ IsSubmit
       /\ event.form.mainDoor = Str("South")
       /\ event.form.plotDirection = Str("South"))
    => /\ "vastuConflict" \in DOMAIN errors
       /\ errors["vastuConflict"] =
            Str("South-facing main door for south-facing plot is not recommended")
       /\ route = "/" /\ IsNullish(locState)
       /\ formData = event.form

\* the conflict is the only thing wrong with the submitted form
C15_Witness ==
    /\ variant = "planner" /\ IsSubmit
    /\ event.form.mainDoor = Str("South")
    /\ event.form.plotDirection = Str("South")
    /\ Positive(event.form.plotWidth) /\ Positive(event.form.plotLength)
    /\ DOMAIN errors = {"vastuConflict"}
    /\ route = "/"

\* the submitted form fails the validation that its submit handler runs
FailsValidation(form) ==
    CASE variant = "auto" ->
            \/ IsNaN(Number(form.plot_width))
            \/ IsNaN(Number(form.plot_length))
      [] variant = "planner" ->
            \/ ~Truthy(form.plotLength) \/ ~Truthy(form.plotWidth)
            \/ ~Truthy(form.plotDirection)
            \/ (form.mainDoor = Str("South")
                  /\ form.plotDirection = Str("South"))
      [] variant = "generator" -> FALSE

(***************************************************************************)
(* C16.  A submit that fails validation leaves the form idle with errors:  *)
(* loading is false, every form field keeps the value it had before the    *)
(* submit, no network request is issued and no navigation happens.         *)
(***************************************************************************)
C16_FailedValidationIdle ==
    (IsSubmit /\ FailsValidation(event.form))
    => /\ loading = FALSE
       /\ formData = event.form
       /\ requests = {} /\ event.id = 0
       /\ route = "/" /\ IsNullish(locState)
       /\ ~NoValidationError

\* a submit with a length that is not a number, the width being one
C16_Witness ==
    /\ variant = "auto" /\ IsSubmit
    /\ IsNaN(Number(event.form.plot_length))
    /\ IsNumber(Number(event.form.plot_width))
    /\ Truthy(error) /\ ~loading /\ formData = event.form

\* the fields of the form of the variant with the values each input delivers
Inputs ==
    CASE variant = "auto" -> AVF_inputs
      [] variant = "planner" -> VPF_inputs
      [] variant = "generator" -> FPG_inputs

\* what the change handler of the variant stores for the value of field f
Stored(f, value) ==
    CASE variant = "auto" /\ f \in {"plot_width", "plot_length"} ->
            parseFloat(value)
      [] variant = "generator" -> Or(parseFloat(value), value)
      [] OTHER -> value

\* nothing but formData and the record of the step changes
FrameOfInputChange ==
    UNCHANGED <<variant, route, locState, loading, error, errors, requests,
                nextId, rLoading, rError, imageUrl, effectPending, imgStatus,
                producedBy>>

(***************************************************************************)
(* C17, as stated.  An input-change event for field f updates only the     *)
(* entry for f in the field map of the form to the current value of that   *)
(* input; every other field, the loading flag and the error state are      *)
(* unchanged.                                                              *)
(***************************************************************************)
C17_InputChangeFrame_Original ==
    [][event'.type = "handleInputChange"
         => /\ \E f \in DOMAIN Inputs : \E value \in Inputs[f] :
                  formData' = [formData EXCEPT ![f] = value]
            /\ FrameOfInputChange]_vars

(***************************************************************************)
(* C17, amended.  An input-change event for field f updates only the entry *)
(* for f in the field map of the form, to the value derived from the       *)
(* current value of that input: the value itself in VastuPlannerForm and   *)
(* for the selects of AutoVastuForm, parseFloat(value) for plot_width and  *)
(* plot_length of AutoVastuForm (NaN for an emptied input), and            *)
(* parseFloat(value) || value in FloorPlanGenerator; every other field,    *)
(* the loading flag and the error state are unchanged.                     *)
(***************************************************************************)
C17_InputChangeFrame ==
    [][event'.type = "handleInputChange"
         => /\ \E f \in DOMAIN Inputs : \E value \in Inputs[f] :
                  formData' = [formData EXCEPT ![f] = Stored(f, value)]
            /\ FrameOfInputChange]_vars

\* a width was typed into AutoVastuForm and is held as a number
C17_Witness ==
    /\ variant = "auto" /\ event.type = "handleInputChange"
    /\ formData.plot_width = Num(1)
    /\ formData.plot_length = NaN
    /\ formData.plot_direction = Str("north")

(***************************************************************************)
(* C18.  The displayed error always belongs to the most recent submission: *)
(* whenever a request is in flight (loading = true) no error message from  *)
(* an earlier submission is displayed, and the errors shown after a submit *)
(* are exactly those produced by that submit.                              *)
(***************************************************************************)
C18_ErrorOfLastSubmit ==
    /\ (loading \/ requests # {}) => (~Truthy(error) /\ DOMAIN errors = {})
    /\ (IsSubmit /\ variant = "auto")
          => error = IF FailsValidation(event.form)
                     THEN Str("Please enter valid numbers for width and length")
                     ELSE Null
    /\ (IsSubmit /\ variant = "planner" /\ route = "/")
          => /\ "plot" \in DOMAIN errors
                  <=> (~Truthy(event.form.plotLength)
                         \/ ~Truthy(event.form.plotWidth))
             /\ "direction" \in DOMAIN errors
                  <=> ~Truthy(event.form.plotDirection)
             /\ "vastuConflict" \in DOMAIN errors
                  <=> (event.form.mainDoor = Str("South")
                         /\ event.form.plotDirection = Str("South"))
             /\ DOMAIN errors \subseteq {"plot", "direction", "vastuConflict"}

\* the second submission is in flight and shows no error
C18_Witness ==
    /\ variant = "auto" /\ event.type = "handleSubmit" /\ event.id = 2
    /\ loading /\ ~Truthy(error) /\ route = "/"

\* a floor plan of the minimum shape: an image URL field and no nested
\* structure
MinimumShape(fp) ==
    /\ Truthy(fp)
    /\ Truthy(OptGet(fp, "plan_image_url"))
    /\ IsNullish(OptGet(fp, "plan_details"))

(***************************************************************************)
(* C19.  For every non-empty floor-plan response that has the minimum      *)
(* shape (an image URL field, with the nested plot/room/validation         *)
(* structure absent), the results view reaches a rendered state showing    *)
(* the image; no reachable state is a render-time exception.               *)
(***************************************************************************)
C19_MinimumShapeRenders ==
    /\ Screen.view # "exception"
    /\ (route = "/results" /\ MinimumShape(FPR_floorPlan(locState))
          /\ ~effectPending)
          => (Screen.view = "results" /\ Screen.img # Null)

\* the results view has nothing left to wait for: its effect has run and the
\* browser owes no load or error event for an image
ResultsQuiescent ==
    route = "/results" /\ ~effectPending /\ imgStatus # "loading"

(***************************************************************************)
(* C20.  For every floor plan supplied to the results view, the loading    *)
(* indicator is eventually removed: the view eventually reaches either the *)
(* image-shown state or the error state, assuming the browser eventually   *)
(* fires load or error for every image it is given.  Stated on the states  *)
(* in which the view waits for nothing more: the effect has run and every  *)
(* image given to the browser has fired load or error; what has not        *)
(* happened by then never happens while the view stays.                    *)
(***************************************************************************)
C20_LoadingEventuallyRemoved ==
    (ResultsQuiescent /\ Truthy(FPR_floorPlan(locState)))
    => /\ Screen.view = "results"
       /\ ~Screen.loadingShown
       /\ (Screen.imgDisplayed \/ Screen.errorShown # Null)

\* the submission is over: no request is left, and the form is either idle
\* or navigated away
Terminated == requests = {} /\ (loading = FALSE \/ route = "/results")

(***************************************************************************)
(* C21.  Every submit of the form eventually terminates with loading =     *)
(* false or with the form navigated away, on every path (invalid numbers,  *)
(* transport error, non-2xx response, unparsable response body, success),  *)
(* assuming the request eventually resolves or rejects.                    *)
(***************************************************************************)
C21_SubmitTerminates == IsSubmit ~> Terminated

\* a submit ended on the path of a 2xx response with an unparsable body
C21_Witness ==
    /\ event.type = "requestFailed"
    /\ event.response.ok /\ ~event.response.parses
    /\ Terminated /\ route = "/"
    /\ error = Str("Unexpected end of JSON input")

\* the plot fields of the room-list form and everything outside formData
\* are as before
PlotUnchanged ==
    /\ DOMAIN formData' = DOMAIN formData
    /\ \A k \in {"width", "length", "scale", "style"} :
          formData'[k] = formData[k]
    /\ UNCHANGED <<variant, route, locState, loading, error, errors, requests,
                   nextId, rLoading, rError, imageUrl, effectPending,
                   imgStatus, producedBy>>

\* new is old with one default room after its last room
AppendedDefault(old, new) ==
    /\ Len(new) = Len(old) + 1
    /\ SubSeq(new, 1, Len(old)) = old
    /\ new[Len(new)] = [width |-> Num(4), length |-> Num(5),
                        position_x |-> Num(0), position_y |-> Num(0),
                        room_type |-> Str("bedroom")]

\* new is old without the room at index i (counted from 0), the others in
\* their order
RemovedAt(old, new, i) ==
    new = SubSeq(old, 1, i) \o SubSeq(old, i + 2, Len(old))

\* new is old but for field f of the room at index i (counted from 0)
ChangedOnly(old, new, i, f) ==
    /\ Len(new) = Len(old)
    /\ \A j \in DOMAIN old : j # i + 1 => new[j] = old[j]
    /\ DOMAIN new[i + 1] = DOMAIN old[i + 1]
    /\ \A g \in DOMAIN old[i + 1] : g # f => new[i + 1][g] = old[i + 1][g]

====
